---- MODULE Spec2Model ----
(***************************************************************************)
(* Model of extract_state_demographics.py: segmentation of a page stream   *)
(* into per-state blocks, parsing of the block lines into group entries,   *)
(* normalisation of the flattened table and the per-state baselines.       *)
(*                                                                         *)
(* Text is a sequence of one-character strings; "\n" is the line break and *)
(* "ndash" stands for the single character U+2013.  Page indices are       *)
(* 0-based as in the source: page i is pages[i + 1].                       *)
(***************************************************************************)
EXTENDS Integers, Sequences, FiniteSets, TLC

VARIABLES pc, pages, starts, blocks, text, data, parsed, df_clean, df_baselines, outputs

vars == <<pc, pages, starts, blocks, text, data, parsed, df_clean, df_baselines, outputs>>

\* An optional value: None is the empty sequence, a present value v is <<v>>.
None == <<>>

Some(v) == <<v>>

(***************************************************************************)
(* Bounds of the model.                                                    *)
(***************************************************************************)
\* Largest number of pages of a document of the segmentation specification.
MaxPages == 3

\* Largest number of percentage tokens on a generated group line.
MaxTokens == 5

\* Largest number of group lines of the first state's block in the normalisation specification.
MaxRows == 2

(***************************************************************************)
(* Characters and strings.                                                 *)
(***************************************************************************)
LowerLetters == <<"a","b","c","d","e","f","g","h","i","j","k","l","m","n","o","p","q","r","s","t","u","v","w","x","y","z">>

UpperLetters == <<"A","B","C","D","E","F","G","H","I","J","K","L","M","N","O","P","Q","R","S","T","U","V","W","X","Y","Z">>

Digits == {"0","1","2","3","4","5","6","7","8","9"}

\* What \s and str.split()/str.strip() treat as whitespace.
Whitespace == {" ", "\n", "\t"}

Range(f) == {f[i] : i \in DOMAIN f}

Max(S) == CHOOSE x \in S : \A y \in S : y <= x

Min(S) == CHOOSE x \in S : \A y \in S : x <= y

\* str.upper() and str.lower(), one character.
UpperChar(c) == IF \E k \in 1..26 : LowerLetters[k] = c
                THEN UpperLetters[CHOOSE k \in 1..26 : LowerLetters[k] = c]
                ELSE c

LowerChar(c) == IF \E k \in 1..26 : UpperLetters[k] = c
                THEN LowerLetters[CHOOSE k \in 1..26 : UpperLetters[k] = c]
                ELSE c

upper(t) == [i \in 1..Len(t) |-> UpperChar(t[i])]

lower(t) == [i \in 1..Len(t) |-> LowerChar(t[i])]

\* The text p occurs in t starting at position i.
IsPrefixAt(t, p, i) == /\ i >= 1
                       /\ i + Len(p) - 1 <= Len(t)
                       /\ \A k \in 1..Len(p) : t[i + k - 1] = p[k]

\* The same, ignoring case (p is in lower case): a literal under re.IGNORECASE.
IsPrefixAtNoCase(t, p, i) == /\ i >= 1
                             /\ i + Len(p) - 1 <= Len(t)
                             /\ \A k \in 1..Len(p) : LowerChar(t[i + k - 1]) = p[k]

\* Python's `p in t` for strings.
Contains(t, p) == \E i \in 1..(Len(t) - Len(p) + 1) : IsPrefixAt(t, p, i)

\* The first position at or after i whose character is not in the class
\* (Len(t) + 1 when the run reaches the end): a greedy [class]*.
RECURSIVE SkipClass(_, _, _)
SkipClass(t, i, class) == IF i <= Len(t) /\ t[i] \in class
                          THEN SkipClass(t, i + 1, class)
                          ELSE i

\* str.strip().
strip(t) == LET keep == {i \in 1..Len(t) : t[i] \notin Whitespace}
            IN IF keep = {} THEN <<>> ELSE SubSeq(t, Min(keep), Max(keep))

(***************************************************************************)
(* The canonical state list.  The model keeps four of the fifty names, in  *)
(* the order of the source list; a state is the text of its name.          *)
(***************************************************************************)
Arkansas == <<"A","r","k","a","n","s","a","s">>

Kansas == <<"K","a","n","s","a","s">>

Ohio == <<"O","h","i","o">>

Texas == <<"T","e","x","a","s">>

STATES == <<Arkansas, Kansas, Ohio, Texas>>

(***************************************************************************)
(* header_re = '2024 Presidential\s*[-ndash]\s*([A-Za-z ]+)', IGNORECASE.  *)
(***************************************************************************)
HeaderLiteral == <<"2","0","2","4"," ","p","r","e","s","i","d","e","n","t","i","a","l">>

Dashes == {"-", "ndash"}

\* The class [A-Za-z ].
NameClass == Range(LowerLetters) \cup Range(UpperLetters) \cup {" "}

NoMatch == [matched |-> FALSE, group |-> <<>>]

\* The match of header_re that starts at position i of txt, if any.  The
\* first \s* is greedy and must be followed by a dash; the second \s* is
\* greedy and gives back characters until one of [A-Za-z ] follows it.
header_re_at(txt, i) ==
    IF ~IsPrefixAtNoCase(txt, HeaderLiteral, i) THEN NoMatch
    ELSE LET d == SkipClass(txt, i + Len(HeaderLiteral), Whitespace)
         IN IF d > Len(txt) \/ txt[d] \notin Dashes THEN NoMatch
            ELSE LET e == SkipClass(txt, d + 1, Whitespace)
                     cands == {q \in (d + 1)..e : q <= Len(txt) /\ txt[q] \in NameClass}
                 IN IF cands = {} THEN NoMatch
                    ELSE LET q == Max(cands)
                             r == SkipClass(txt, q, NameClass) - 1
                         IN [matched |-> TRUE, group |-> SubSeq(txt, q, r)]

\* header_re.search(txt): the leftmost match.
header_re_search(txt) ==
    LET hits == {i \in 1..Len(txt) : header_re_at(txt, i).matched}
    IN IF hits = {} THEN NoMatch ELSE header_re_at(txt, Min(hits))

(***************************************************************************)
(* find_state_starts.  first_page is the dict in insertion order: a        *)
(* sequence of <<state, page index>>.                                      *)
(***************************************************************************)
HasKey(first_page, S) == \E k \in 1..Len(first_page) : first_page[k][1] = S

\* for S in STATES: if hit(S): if S not in first_page: first_page[S] = i
RECURSIVE RecordStates(_, _, _, _)
RecordStates(first_page, i, hit, k) ==
    IF k > Len(STATES) THEN first_page
    ELSE LET S == STATES[k]
         IN RecordStates(IF hit[k] /\ ~HasKey(first_page, S)
                         THEN Append(first_page, <<S, i>>)
                         ELSE first_page,
                         i, hit, k + 1)

\* The body of the loop over the pages, for page i with text txt.
ScanPage(first_page, i, txt) ==
    IF txt = <<>> THEN first_page
    ELSE LET m == header_re_search(txt)
         IN IF m.matched
            THEN LET found == strip(m.group)
                 IN RecordStates(first_page, i,
                        [k \in 1..Len(STATES) |-> Contains(upper(found), upper(STATES[k]))], 1)
            ELSE RecordStates(first_page, i,
                        [k \in 1..Len(STATES) |->
                            Contains(upper(txt), <<"\n">> \o upper(STATES[k]) \o <<"\n">>)], 1)

RECURSIVE ScanPages(_, _, _)
ScanPages(first_page, pgs, i) ==
    IF i >= Len(pgs) THEN first_page
    ELSE ScanPages(ScanPage(first_page, i, pgs[i + 1]), pgs, i + 1)

\* The final fallback: each state still missing gets the first page whose
\* upper-cased text contains its upper-cased name.
RECURSIVE FinalFallback(_, _, _)
FinalFallback(first_page, pgs, k) ==
    IF k > Len(STATES) THEN first_page
    ELSE LET S == STATES[k]
             hits == {i \in 0..(Len(pgs) - 1) : Contains(upper(pgs[i + 1]), upper(S))}
         IN FinalFallback(IF ~HasKey(first_page, S) /\ hits # {}
                          THEN Append(first_page, <<S, Min(hits)>>)
                          ELSE first_page,
                          pgs, k + 1)

\* sorted(first_page.items(), key=lambda kv: kv[1]): a stable sort, so the
\* entries of one page keep their insertion order.
RECURSIVE SortedByPage(_, _, _)
SortedByPage(first_page, p, last) ==
    IF p > last THEN <<>>
    ELSE SelectSeq(first_page, LAMBDA kv : kv[2] = p) \o SortedByPage(first_page, p + 1, last)

find_state_starts(pgs) ==
    SortedByPage(FinalFallback(ScanPages(<<>>, pgs, 0), pgs, 1), 0, Len(pgs) - 1)

(***************************************************************************)
(* main: the page range of each state's block.                             *)
(***************************************************************************)
\* BlockEnd with the "- 1" forgotten: a block would end on the page the next one starts on.
BlockEnd_NoMinusOne(sts, i, npages) == IF i + 1 <= Len(sts) THEN sts[i + 1][2] ELSE npages - 1

\* e = len(pages) - 1; if i + 1 < len(keys): e = starts[keys[i+1]] - 1
\* (i is the 1-based position here).
BlockEnd(sts, i, npages) == IF i + 1 <= Len(sts) THEN sts[i + 1][2] - 1 ELSE npages - 1

BlockRanges(sts, npages) ==
    [i \in 1..Len(sts) |-> [state |-> sts[i][1], s |-> sts[i][2], e |-> BlockEnd(sts, i, npages)]]


(***************************************************************************)
(* Numbers.  A float is modelled as the exact rational it was written as:  *)
(* [n, d] in lowest terms with d > 0.                                      *)
(***************************************************************************)
Abs(x) == IF x < 0 THEN -x ELSE x

RECURSIVE GCD(_, _)
GCD(a, b) == IF b = 0 THEN a ELSE GCD(b, a % b)

Rat(n, d) == LET g == GCD(Abs(n), Abs(d))
                 sgn == IF d < 0 THEN -1 ELSE 1
             IN [n |-> sgn * (n \div g), d |-> sgn * (d \div g)]

RInt(k) == [n |-> k, d |-> 1]

RAdd(x, y) == Rat(x.n * y.d + y.n * x.d, x.d * y.d)

RMul(x, y) == Rat(x.n * y.n, x.d * y.d)

\* x / y for y # 0.
RDiv(x, y) == Rat(x.n * y.d, x.d * y.n)

RLeq(x, y) == x.n * y.d <= y.n * x.d

RLess(x, y) == x.n * y.d < y.n * x.d

RECURSIVE RSum(_)
RSum(xs) == IF xs = <<>> THEN RInt(0) ELSE RAdd(Head(xs), RSum(Tail(xs)))

DigitVal(c) == CHOOSE v \in 0..9 : <<"0","1","2","3","4","5","6","7","8","9">>[v + 1] = c

\* int() of a string of digits.
RECURSIVE IntOf(_)
IntOf(ds) == IF ds = <<>> THEN 0
             ELSE 10 * IntOf(SubSeq(ds, 1, Len(ds) - 1)) + DigitVal(ds[Len(ds)])

RECURSIVE Pow10(_)
Pow10(k) == IF k = 0 THEN 1 ELSE 10 * Pow10(k - 1)

\* float(x) for x = -?digits or -?digits.digits.
ParseFloat(x) ==
    LET neg == Len(x) > 0 /\ x[1] = "-"
        body == IF neg THEN Tail(x) ELSE x
        dots == {i \in 1..Len(body) : body[i] = "."}
        ip == IF dots = {} THEN body ELSE SubSeq(body, 1, Min(dots) - 1)
        fp == IF dots = {} THEN <<>> ELSE SubSeq(body, Min(dots) + 1, Len(body))
        mag == Rat(IntOf(ip) * Pow10(Len(fp)) + IntOf(fp), Pow10(Len(fp)))
    IN IF neg THEN Rat(-mag.n, mag.d) ELSE mag

(***************************************************************************)
(* parse_state_block: lines, sample size.                                  *)
(***************************************************************************)
\* str.splitlines().
RECURSIVE splitlines(_)
splitlines(t) ==
    IF t = <<>> THEN <<>>
    ELSE LET nl == {i \in 1..Len(t) : t[i] = "\n"}
         IN IF nl = {} THEN <<t>>
            ELSE <<SubSeq(t, 1, Min(nl) - 1)>> \o splitlines(SubSeq(t, Min(nl) + 1, Len(t)))

\* [ln.strip() for ln in text.splitlines() if ln.strip()]
StrippedLines(t) ==
    LET raw == splitlines(t)
        stripped == [i \in 1..Len(raw) |-> strip(raw[i])]
    IN SelectSeq(stripped, LAMBDA ln : ln # <<>>)

\* ' '.join(ln.split())
RECURSIVE Collapse(_)
Collapse(t) ==
    LET u == strip(t)
        ws == {i \in 1..Len(u) : u[i] \in Whitespace}
    IN IF ws = {} THEN u
       ELSE SubSeq(u, 1, Min(ws) - 1) \o <<" ">> \o Collapse(SubSeq(u, Min(ws) + 1, Len(u)))

SampleLiteral == <<"s","a","m","p","l","e"," ","s","i","z","e">>

\* sample_re = 'Sample Size[:\s]+([\d,]+)', IGNORECASE: the match at i.
sample_re_at(ln, i) ==
    IF ~IsPrefixAtNoCase(ln, SampleLiteral, i) THEN NoMatch
    ELSE LET a == i + Len(SampleLiteral)
             b == SkipClass(ln, a, Whitespace \cup {":"})
             c == SkipClass(ln, b, Digits \cup {","})
         IN IF b > a /\ c > b THEN [matched |-> TRUE, group |-> SubSeq(ln, b, c - 1)]
            ELSE NoMatch

sample_re_search(ln) ==
    LET hits == {i \in 1..Len(ln) : sample_re_at(ln, i).matched}
    IN IF hits = {} THEN NoMatch ELSE sample_re_at(ln, Min(hits))

\* Number of leading lines scanned for the sample size.
SampleScanLines == 80

\* int(m.group(1).replace(",", "")), None when int() raises.
SampleValue(group) ==
    LET ds == SelectSeq(group, LAMBDA c : c # ",")
    IN IF ds = <<>> THEN None ELSE Some(IntOf(ds))

\* The loop over lines[:80]: the first line that matches decides.
SampleSize(lines) ==
    LET hits == {k \in 1..Len(lines) : k <= SampleScanLines /\ sample_re_search(lines[k]).matched}
    IN IF hits = {} THEN None ELSE SampleValue(sample_re_search(lines[Min(hits)]).group)

(***************************************************************************)
(* parse_state_block: one group line.                                      *)
(***************************************************************************)
\* The position of the "%" that ends the match of (-?\d+\.\d+%|-?\d+%)
\* starting at position i of s, 0 when there is none.
PctEnd(s, i) ==
    LET a == IF i <= Len(s) /\ s[i] = "-" THEN i + 1 ELSE i
        b == SkipClass(s, a, Digits)
    IN IF i < 1 \/ b = a \/ b > Len(s) THEN 0
       ELSE IF s[b] = "%" THEN b
       ELSE IF s[b] = "."
            THEN LET c == SkipClass(s, b + 1, Digits)
                 IN IF c > b + 1 /\ c <= Len(s) /\ s[c] = "%" THEN c ELSE 0
            ELSE 0

\* pct_re.findall(s), scanning from position i: <<start, end>> of each token.
RECURSIVE PctSpans(_, _)
PctSpans(s, i) ==
    IF i > Len(s) THEN <<>>
    ELSE LET e == PctEnd(s, i)
         IN IF e > 0 THEN << <<i, e>> >> \o PctSpans(s, e + 1) ELSE PctSpans(s, i + 1)

pct_re_findall(s) == LET sp == PctSpans(s, 1)
                     IN [k \in 1..Len(sp) |-> SubSeq(s, sp[k][1], sp[k][2])]

\* x.strip('%')
StripPct(x) == LET keep == {i \in 1..Len(x) : x[i] # "%"}
               IN IF keep = {} THEN <<>> ELSE SubSeq(x, Min(keep), Max(keep))

\* nums = [float(x.strip('%')) for x in pcts]
Nums(s) == LET pcts == pct_re_findall(s)
           IN [k \in 1..Len(pcts) |-> ParseFloat(StripPct(pcts[k]))]

\* The {1,80} of the label pattern.
MaxLabelLen == 80

\* re.match(r'^(.{1,80}?)\s+(-?\d+\.\d+%|-?\d+%)', s): the lazy group takes the
\* fewest characters n such that whitespace and then a percentage token follow.
LabelOf(s) ==
    LET ns == {n \in 1..MaxLabelLen :
                  /\ n < Len(s)
                  /\ \A k \in 1..n : s[k] # "\n"
                  /\ LET w == SkipClass(s, n + 1, Whitespace)
                     IN w > n + 1 /\ PctEnd(s, w) > 0}
    IN IF ns = {} THEN None ELSE Some(strip(SubSeq(s, 1, Min(ns))))

AgeSeps == Whitespace \cup {"-", "ndash"}

\* lo[\s\-ndash]hi occurs in l.
AgeRange(l, lo, hi) ==
    \E i \in 1..Len(l) : /\ IsPrefixAt(l, lo, i)
                         /\ i + 2 <= Len(l)
                         /\ l[i + 2] \in AgeSeps
                         /\ IsPrefixAt(l, hi, i + 3)

\* re.search(r'18[\s\-ndash]29|30[\s\-ndash]44|45[\s\-ndash]64|65\+|65 \+', l)
IsAge(l) == \/ AgeRange(l, <<"1","8">>, <<"2","9">>)
            \/ AgeRange(l, <<"3","0">>, <<"4","4">>)
            \/ AgeRange(l, <<"4","5">>, <<"6","4">>)
            \/ Contains(l, <<"6","5","+">>)
            \/ Contains(l, <<"6","5"," ","+">>)

RaceKeywords ==
    { <<"w","h","i","t","e">>, <<"b","l","a","c","k">>, <<"h","i","s","p","a","n","i","c">>,
      <<"l","a","t","i","n","o">>, <<"a","s","i","a","n">>, <<"n","a","t","i","v","e">>,
      <<"m","u","l","t","i","r","a","c","i","a","l">> }

EducationKeywords ==
    { <<"c","o","l","l","e","g","e">>, <<"n","o"," ","c","o","l","l","e","g","e">>,
      <<"s","o","m","e"," ","c","o","l","l","e","g","e">>,
      <<"h","i","g","h"," ","s","c","h","o","o","l">>, <<"h","s">>,
      <<"p","o","s","t","g","r","a","d","u","a","t","e">>,
      <<"c","o","l","l","e","g","e"," ","g","r","a","d">> }

GenderKeywords ==
    { <<"m","e","n">>, <<"w","o","m","e","n">>, <<"n","o","n","-","b","i","n","a","r","y">>,
      <<"n","o","n","b","i","n","a","r","y">> }

\* any(k in l for k in keywords)
AnyIn(l, keywords) == \E k \in keywords : Contains(l, k)

\* GroupType with the race rule tried before the age rule.
GroupType_RaceFirst(l) ==
    IF AnyIn(l, RaceKeywords) THEN "Race"
    ELSE IF IsAge(l) THEN "Age"
    ELSE IF AnyIn(l, EducationKeywords) THEN "Education"
    ELSE IF AnyIn(l, GenderKeywords) THEN "Gender"
    ELSE "Misc"

\* The if/elif chain over l = s.lower().
GroupType(l) ==
    IF IsAge(l) THEN "Age"
    ELSE IF AnyIn(l, RaceKeywords) THEN "Race"
    ELSE IF AnyIn(l, EducationKeywords) THEN "Education"
    ELSE IF AnyIn(l, GenderKeywords) THEN "Gender"
    ELSE "Misc"

\* Values with "== 4" in place of ">= 4": a fifth token sends the line to the fallback.
Values_ExactlyFour(nums) ==
    LET unset == [total_pct |-> None, dem_pct |-> None, gop_pct |-> None,
                  other_pct |-> None, cols |-> <<>>]
    IN IF Len(nums) = 4
       THEN [unset EXCEPT !.total_pct = Some(nums[1]), !.dem_pct = Some(nums[2]),
                          !.gop_pct = Some(nums[3]), !.other_pct = Some(nums[4])]
       ELSE IF Len(nums) = 3
       THEN [unset EXCEPT !.dem_pct = Some(nums[1]), !.gop_pct = Some(nums[2]),
                          !.other_pct = Some(nums[3])]
       ELSE IF Len(nums) = 2
       THEN [unset EXCEPT !.dem_pct = Some(nums[1]), !.gop_pct = Some(nums[2])]
       ELSE [unset EXCEPT !.cols = nums]

\* The values dict: the four canonical keys and, in cols, the values stored
\* under col0, col1, ... (cols[k] is the value of key col(k-1)).
Values(nums) ==
    LET unset == [total_pct |-> None, dem_pct |-> None, gop_pct |-> None,
                  other_pct |-> None, cols |-> <<>>]
    IN IF Len(nums) >= 4
       THEN [unset EXCEPT !.total_pct = Some(nums[1]), !.dem_pct = Some(nums[2]),
                          !.gop_pct = Some(nums[3]), !.other_pct = Some(nums[4])]
       ELSE IF Len(nums) = 3
       THEN [unset EXCEPT !.dem_pct = Some(nums[1]), !.gop_pct = Some(nums[2]),
                          !.other_pct = Some(nums[3])]
       ELSE IF Len(nums) = 2
       THEN [unset EXCEPT !.dem_pct = Some(nums[1]), !.gop_pct = Some(nums[2])]
       ELSE [unset EXCEPT !.cols = nums]

\* The line is skipped unless it holds the character "%".
HasPercentSign(ln) == \E i \in 1..Len(ln) : ln[i] = "%"

\* The entry appended for a line that is not skipped.
Entry(ln) == LET s == Collapse(ln)
             IN [gtype |-> GroupType(lower(s)), label |-> LabelOf(s), line |-> s,
                 values |-> Values(Nums(s))]

\* data["groups"][gtype].append(entry): groups is the defaultdict in
\* insertion order, a sequence of [gtype, entries].
AppendEntry(groups, ent) ==
    LET rec == [label |-> ent.label, line |-> ent.line, values |-> ent.values]
    IN IF \E g \in 1..Len(groups) : groups[g].gtype = ent.gtype
       THEN [g \in 1..Len(groups) |->
                IF groups[g].gtype = ent.gtype
                THEN [groups[g] EXCEPT !.entries = Append(@, rec)]
                ELSE groups[g]]
       ELSE Append(groups, [gtype |-> ent.gtype, entries |-> <<rec>>])

RECURSIVE ParseGroupLines(_, _, _)
ParseGroupLines(groups, lines, k) ==
    IF k > Len(lines) THEN groups
    ELSE ParseGroupLines(IF HasPercentSign(lines[k])
                         THEN AppendEntry(groups, Entry(lines[k]))
                         ELSE groups,
                         lines, k + 1)

parse_state_block(t) ==
    LET lines == StrippedLines(t)
    IN [sample_size |-> SampleSize(lines),
        groups |-> ParseGroupLines(<<>>, lines, 1),
        raw_header |-> IF lines # <<>> THEN lines[1] ELSE <<>>]

(***************************************************************************)
(* Documents of the segmentation specification.                            *)
(***************************************************************************)
\* A page that holds the header of state S and nothing else.
HeaderPage(S) == <<"2","0","2","4"," ","P","r","e","s","i","d","e","n","t","i","a","l"," ","-"," ">> \o S \o <<"\n">>

\* A page that names no state.
CoverPage == <<"P","o","l","l","\n">>

\* A page without header that has TEXAS on a line of its own.
UpperLinePage == <<"x","\n","T","E","X","A","S","\n">>

\* A page that names Ohio in running text only.
ProsePage == <<"s","e","e"," ","O","h","i","o","\n">>

EmptyPage == <<>>

HeaderPages == {HeaderPage(STATES[k]) : k \in 1..Len(STATES)}

SegPageTexts == HeaderPages \cup {CoverPage, UpperLinePage, ProsePage, EmptyPage}

SegDocs == UNION {[1..n -> SegPageTexts] : n \in 1..MaxPages}

(***************************************************************************)
(* The segmentation specification: main up to the block ranges.            *)
(***************************************************************************)
Idle == /\ text = <<>>
        /\ data = [sample_size |-> None, groups |-> <<>>, raw_header |-> <<>>]
        /\ parsed = <<>>
        /\ df_clean = <<>>
        /\ df_baselines = <<>>
        /\ outputs = {}

SegInit == /\ pc = "pages"
           /\ pages \in SegDocs
           /\ starts = <<>>
           /\ blocks = <<>>
           /\ Idle

FindStateStarts == /\ pc = "pages"
                   /\ starts' = find_state_starts(pages)
                   /\ pc' = "starts"
                   /\ UNCHANGED <<pages, blocks, text, data, parsed, df_clean, df_baselines, outputs>>

DeriveBlocks == /\ pc = "starts"
                /\ blocks' = BlockRanges(starts, Len(pages))
                /\ pc' = "blocks"
                /\ UNCHANGED <<pages, starts, text, data, parsed, df_clean, df_baselines, outputs>>

SegNext == FindStateStarts \/ DeriveBlocks

SpecSeg == SegInit /\ [][SegNext]_vars

(***************************************************************************)
(* Claims about the segmentation (specification SpecSeg).                  *)
(***************************************************************************)
PageIndices == 0..(Len(pages) - 1)

\* The upper-cased text names no state of the list.
NamesNoState(txt) == \A k \in 1..Len(STATES) : ~Contains(upper(txt), upper(STATES[k]))

\* Some states have a header each, on a page of their own, and no state has
\* two headers.
HeadersOnOwnPages ==
    /\ \E i \in PageIndices : pages[i + 1] \in HeaderPages
    /\ \A i, j \in PageIndices : (i # j /\ pages[i + 1] \in HeaderPages) => pages[i + 1] # pages[j + 1]

\* As HeadersOnOwnPages, and the rest of the document names no state.
OnlyHeadersNameStates ==
    /\ HeadersOnOwnPages
    /\ \A i \in PageIndices : pages[i + 1] \in HeaderPages \/ NamesNoState(pages[i + 1])

\* The states that have a header, each with the page of its header, in page order.
RECURSIVE HeaderStarts(_, _)
HeaderStarts(pgs, i) ==
    IF i >= Len(pgs) THEN <<>>
    ELSE (IF pgs[i + 1] \in HeaderPages
          THEN << <<CHOOSE S \in Range(STATES) : pgs[i + 1] = HeaderPage(S), i>> >>
          ELSE <<>>) \o HeaderStarts(pgs, i + 1)

\* The blocks that hold page p.
BlocksOf(p) == {i \in 1..Len(blocks) : blocks[i].s <= p /\ p <= blocks[i].e}

BlocksOrdered == \A i \in 1..(Len(blocks) - 1) : blocks[i].s <= blocks[i + 1].s

BlocksAdjacent == \A i \in 1..(Len(blocks) - 1) : blocks[i].e = blocks[i + 1].s - 1

LastBlockEndsOnLastPage == Len(blocks) > 0 => blocks[Len(blocks)].e = Len(pages) - 1

NoBlockEmpty == \A i \in 1..Len(blocks) : blocks[i].s <= blocks[i].e

C2_ExactlyTheHeaderStates ==
    (pc = "starts" /\ OnlyHeadersNameStates) => starts = HeaderStarts(pages, 0)

(***************************************************************************)
(* The parsing specification: parse_state_block on one block text.         *)
(***************************************************************************)
TokenPool == << <<"4","5",".","0","%">>, <<"4","0",".","0","%">>, <<"3","5",".","0","%">>,
                <<"5",".","0","%">>, <<"2",".","0","%">> >>

\* The first n tokens of the pool (taken cyclically), separated by one blank.
RECURSIVE TokenText(_)
TokenText(n) ==
    IF n = 0 THEN <<>>
    ELSE (IF n = 1 THEN <<>> ELSE TokenText(n - 1) \o <<" ">>)
         \o TokenPool[((n - 1) % Len(TokenPool)) + 1]

RECURSIVE Repeat(_, _)
Repeat(c, n) == IF n = 0 THEN <<>> ELSE <<c>> \o Repeat(c, n - 1)

\* Leading texts of a group line; the last one is longer than the label pattern allows.
LineLabels ==
    { <<>>, <<"M","e","n">>, <<"W","h","i","t","e"," ","1","8","-","2","9">>,
      <<"B","l","a","c","k"," ","w","o","m","e","n">>, <<"C","o","l","l","e","g","e">>,
      <<"T","o","t","a","l">>, Repeat("x", MaxLabelLen + 1) }

\* What stands between the leading text and the first token.
LineSeparators == { <<" ">>, <<":">> }

\* What follows the tokens: nothing, or a percent sign that belongs to no token.
LineTails == { <<>>, <<" ","%">> }

GroupLines ==
    { lab \o (IF lab = <<>> THEN <<>> ELSE sep) \o TokenText(n) \o tail \o <<"\n">> :
        lab \in LineLabels, sep \in LineSeparators, n \in 0..MaxTokens, tail \in LineTails }

SampleLines ==
    { <<>>,
      <<"S","a","m","p","l","e"," ","S","i","z","e",":"," ","5","0","0","\n">>,
      <<"S","a","m","p","l","e"," ","S","i","z","e",":"," ","0","\n">>,
      <<"s","a","m","p","l","e"," ","s","i","z","e"," ",",","\n">> }

LastLines ==
    { <<>>, <<"W","o","m","e","n"," ","-","5","0","%"," ","4","0","%","\n">>,
      <<"6","5","+"," ","1","2",".","5","%","\n">> }

BlockTexts == { sl \o gl \o ll : sl \in SampleLines, gl \in GroupLines, ll \in LastLines }

ParseInit == /\ pc = "text"
             /\ text \in BlockTexts
             /\ data = [sample_size |-> None, groups |-> <<>>, raw_header |-> <<>>]
             /\ pages = <<>>
             /\ starts = <<>>
             /\ blocks = <<>>
             /\ parsed = <<>>
             /\ df_clean = <<>>
             /\ df_baselines = <<>>
             /\ outputs = {}

ParseStateBlock == /\ pc = "text"
                   /\ data' = parse_state_block(text)
                   /\ pc' = "parsed"
                   /\ UNCHANGED <<pages, starts, blocks, text, parsed, df_clean, df_baselines, outputs>>

ParseNext == ParseStateBlock

SpecParse == ParseInit /\ [][ParseNext]_vars

(***************************************************************************)
(* Claims about parse_state_block (specification SpecParse).               *)
(***************************************************************************)
\* Every recorded entry, with the group type it was filed under.
Entries == UNION { { [gtype |-> data.groups[g].gtype, ent |-> data.groups[g].entries[k]] :
                        k \in 1..Len(data.groups[g].entries) } : g \in 1..Len(data.groups) }

EntryPositions == UNION { { <<g, k>> : k \in 1..Len(data.groups[g].entries) } :
                             g \in 1..Len(data.groups) }

\* The stripped lines of the block that hold a "%".
PercentLines == LET lines == StrippedLines(text)
                IN {k \in 1..Len(lines) : HasPercentSign(lines[k])}

Canonical(v) == <<v.total_pct, v.dem_pct, v.gop_pct, v.other_pct>>

\* C7: the values of every entry follow from the count n of the percentage
\* tokens of its line: n >= 4 fills total, dem, gop, other with the first four
\* values; n = 3 fills dem, gop, other; n = 2 fills dem, gop; n < 2 leaves the
\* four canonical fields unset and stores the values under col0, ...; no entry
\* has both a canonical field and an overflow key.
C7_ValuesFollowTokenCount ==
    pc = "parsed" =>
        \A x \in Entries :
            LET nums == Nums(x.ent.line)
                n == Len(nums)
                v == x.ent.values
            IN /\ n >= 4 => /\ Canonical(v) = <<Some(nums[1]), Some(nums[2]), Some(nums[3]), Some(nums[4])>>
                            /\ v.cols = <<>>
               /\ n = 3 => /\ Canonical(v) = <<None, Some(nums[1]), Some(nums[2]), Some(nums[3])>>
                           /\ v.cols = <<>>
               /\ n = 2 => /\ Canonical(v) = <<None, Some(nums[1]), Some(nums[2]), None>>
                           /\ v.cols = <<>>
               /\ n < 2 => /\ Canonical(v) = <<None, None, None, None>>
                           /\ v.cols = nums
               /\ ~(Canonical(v) # <<None, None, None, None>> /\ v.cols # <<>>)

\* A line with the five tokens 45.0% 40.0% 35.0% 5.0% 2.0% was parsed: the
\* fifth value is ignored; and a line with one token went to col0.
C7_Witness ==
    /\ pc = "parsed"
    /\ \E x \in Entries :
          /\ Len(Nums(x.ent.line)) = 5
          /\ Canonical(x.ent.values) = <<Some(RInt(45)), Some(RInt(40)), Some(RInt(35)), Some(RInt(5))>>
    /\ \E x \in Entries : x.ent.values.cols = <<Rat(25, 2)>>

C9_EntriesHaveAPercentageToken ==
    pc = "parsed" => \A x \in Entries : Len(pct_re_findall(x.ent.line)) >= 1

\* C10 as stated: for every recorded line with a percentage token, the label
\* is the trimmed text before the first token, and it is absent exactly when
\* the line starts with the token.
C10_LabelIsTextBeforeFirstToken ==
    pc = "parsed" =>
        \A x \in Entries :
            LET spans == PctSpans(x.ent.line, 1)
            IN spans # <<>> =>
                  x.ent.label = IF spans[1][1] = 1 THEN None
                                ELSE Some(strip(SubSeq(x.ent.line, 1, spans[1][1] - 1)))

(***************************************************************************)
(* normalize_and_flatten.  parsed_states is the OrderedDict in insertion   *)
(* order: a sequence of [state, pdata].  A data frame is the sequence of   *)
(* its rows; a missing number (None, NaN) is None.                         *)
(***************************************************************************)
RECURSIVE ConcatAll(_)
ConcatAll(seqs) == IF seqs = <<>> THEN <<>> ELSE Head(seqs) \o ConcatAll(Tail(seqs))

\* sample = pdata.get("sample_size") or None: a sample size of 0 is falsy.
SampleOrNone(x) == IF x = Some(0) THEN None ELSE x

\* The rows appended for the entries of one group of one state.
GroupRows(st, sample, grp) ==
    [k \in 1..Len(grp.entries) |->
        [state |-> st,
         state_sample |-> sample,
         group_type |-> grp.gtype,
         label |-> grp.entries[k].label,
         total_pct |-> grp.entries[k].values.total_pct,
         dem_pct |-> grp.entries[k].values.dem_pct,
         gop_pct |-> grp.entries[k].values.gop_pct,
         other_pct |-> grp.entries[k].values.other_pct,
         source_line |-> grp.entries[k].line]]

\* rows, after the loop over parsed_states.items().
Flatten(parsed_states) ==
    ConcatAll([i \in 1..Len(parsed_states) |->
        LET st == parsed_states[i].state
            pdata == parsed_states[i].pdata
            sample == SampleOrNone(pdata.sample_size)
        IN ConcatAll([g \in 1..Len(pdata.groups) |-> GroupRows(st, sample, pdata.groups[g])])])

\* df.dropna(subset=["state_sample", "total_pct", "dem_pct"])
DropNa(rows) ==
    SelectSeq(rows, LAMBDA r : r.state_sample # None /\ r.total_pct # None /\ r.dem_pct # None)

\* sum_by_state[st]
StateSum(rows, st) ==
    LET mine == SelectSeq(rows, LAMBDA r : r.state = st)
    IN RSum([i \in 1..Len(mine) |-> mine[i].total_pct[1]])

RescaleLo == 95

RescaleHi == 105

\* InTolerance with exclusive bounds: 95 < ssum < 105.
InTolerance_Exclusive(ssum) == RLess(RInt(RescaleLo), ssum) /\ RLess(ssum, RInt(RescaleHi))

\* 95 <= ssum <= 105
InTolerance(ssum) == RLeq(RInt(RescaleLo), ssum) /\ RLeq(ssum, RInt(RescaleHi))

\* The loop over sum_by_state: the rows of a state whose sum is positive and
\* outside the tolerance get total_pct / ssum * 100.0.
Rescale(rows) ==
    [i \in 1..Len(rows) |->
        LET ssum == StateSum(rows, rows[i].state)
        IN IF RLeq(ssum, RInt(0)) THEN rows[i]
           ELSE IF ~InTolerance(ssum)
                THEN [rows[i] EXCEPT !.total_pct = Some(RMul(RDiv(rows[i].total_pct[1], ssum), RInt(100)))]
                ELSE rows[i]]

\* The two derived columns.
WithDerived(r) ==
    [state |-> r.state, state_sample |-> r.state_sample, group_type |-> r.group_type,
     label |-> r.label, total_pct |-> r.total_pct, dem_pct |-> r.dem_pct,
     gop_pct |-> r.gop_pct, other_pct |-> r.other_pct, source_line |-> r.source_line,
     grp_share_of_state |-> RDiv(r.total_pct[1], RInt(100)),
     dem_rate |-> RDiv(r.dem_pct[1], RInt(100))]

\* pd.DataFrame([]) has no columns, and dropna(subset=...) on it raises
\* KeyError; otherwise the result is df_clean.
normalize_and_flatten(parsed_states) ==
    LET rows == Flatten(parsed_states)
    IN IF rows = <<>> THEN [raised |-> TRUE, df |-> <<>>]
       ELSE LET rescaled == Rescale(DropNa(rows))
            IN [raised |-> FALSE, df |-> [i \in 1..Len(rescaled) |-> WithDerived(rescaled[i])]]

(***************************************************************************)
(* compute_state_baselines.                                                *)
(***************************************************************************)
\* BaselineMargin as if dem_share were a fraction: 2 * dem_share - 1.
BaselineMargin_Fraction(dem_share) == RAdd(RMul(RInt(2), dem_share), RInt(-1))

\* margin = 2 * dem_share - 100.0
BaselineMargin(dem_share) == RAdd(RMul(RInt(2), dem_share), RInt(-100))

\* dem_votes = (g["grp_share_of_state"] * g["dem_rate"] * sample).sum()
DemVotes(g, sample) ==
    RSum([i \in 1..Len(g) |-> RMul(RMul(g[i].grp_share_of_state, g[i].dem_rate), RInt(sample))])

\* total_votes = (g["grp_share_of_state"] * sample).sum()
TotalVotes(g, sample) ==
    RSum([i \in 1..Len(g) |-> RMul(g[i].grp_share_of_state, RInt(sample))])

\* The row appended for the group g of state st.
StateBaseline(st, g) ==
    LET sample == g[1].state_sample[1]
        dem_votes == DemVotes(g, sample)
        total_votes == TotalVotes(g, sample)
    IN IF RLess(RInt(0), total_votes)
       THEN LET dem_share == RMul(RDiv(dem_votes, total_votes), RInt(100))
            IN [state |-> st, sample_size |-> sample,
                baseline_dem_share |-> Some(dem_share),
                baseline_margin |-> Some(BaselineMargin(dem_share))]
       ELSE [state |-> st, sample_size |-> sample,
             baseline_dem_share |-> None, baseline_margin |-> None]

\* df.groupby("state") visits the states that have a row, in sorted order,
\* which is the order of STATES.
compute_state_baselines(df) ==
    ConcatAll([k \in 1..Len(STATES) |->
        LET g == SelectSeq(df, LAMBDA r : r.state = STATES[k])
        IN IF g = <<>> THEN <<>> ELSE <<StateBaseline(STATES[k], g)>>])

(***************************************************************************)
(* The normalisation specification: normalize_and_flatten and              *)
(* compute_state_baselines on the parse of bounded block texts.            *)
(***************************************************************************)
RowLines ==
    { <<"1","8","-","2","9"," ","-","5","0","%"," ","4","0","%"," ","5","0","%"," ","1","0","%","\n">>,
      <<"B","l","a","c","k"," ","4","7","%"," ","6","0","%"," ","3","5","%"," ","5","%","\n">>,
      <<"M","e","n"," ","4","7",".","5","%"," ","5","0","%"," ","4","5","%"," ","5","%","\n">>,
      <<"W","o","m","e","n"," ","5","0","%"," ","3","0","%"," ","6","0","%"," ","1","0","%","\n">>,
      <<"C","o","l","l","e","g","e"," ","5","5","%"," ","4","5","%"," ","5","0","%"," ","5","%","\n">>,
      <<"O","t","h","e","r"," ","6","0","%"," ","5","0","%"," ","4","5","%"," ","5","%","\n">>,
      <<"A","s","i","a","n"," ","4","0","%"," ","3","0","%"," ","6","0","%"," ","1","0","%","\n">>,
      <<"L","a","t","i","n","o"," ","4","5","%"," ","5","0","%"," ","5","%","\n">> }

NormSampleLines ==
    { <<>>,
      <<"S","a","m","p","l","e"," ","S","i","z","e",":"," ","1",",","0","0","0","\n">>,
      <<"S","a","m","p","l","e"," ","S","i","z","e",":"," ","0","\n">> }

\* The block texts of the first state: a sample line and up to MaxRows group lines.
OhioBlocks ==
    UNION { { sl \o ConcatAll(ls) : sl \in NormSampleLines, ls \in [1..n -> RowLines] } :
               n \in 0..MaxRows }

\* The block texts of a second state; <<>> stands for no second state.
TexasBlocks ==
    { <<>>,
      <<"S","a","m","p","l","e"," ","S","i","z","e",":"," ","5","0","0","\n">>
         \o <<"M","e","n"," ","8","0","%"," ","5","0","%"," ","4","5","%"," ","5","%","\n">>,
      <<"S","a","m","p","l","e"," ","S","i","z","e",":"," ","5","0","0","\n">>
         \o <<"M","e","n"," ","1","0","0","%"," ","5","0","%"," ","4","5","%"," ","5","%","\n">>,
      <<"S","a","m","p","l","e"," ","S","i","z","e",":"," ","5","0","0","\n">>
         \o <<"M","e","n"," ","0","%"," ","5","0","%"," ","4","5","%"," ","5","%","\n">> }

\* What main stores in parsed for these blocks.
OhioParsed == { <<[state |-> Ohio, pdata |-> parse_state_block(ob)]>> : ob \in OhioBlocks }

TexasParsed == { IF tb = <<>> THEN <<>> ELSE <<[state |-> Texas, pdata |-> parse_state_block(tb)]>> :
                    tb \in TexasBlocks }

NormInit == /\ pc = "parsed"
            /\ \E op \in OhioParsed, tp \in TexasParsed : parsed = op \o tp
            /\ pages = <<>>
            /\ starts = <<>>
            /\ blocks = <<>>
            /\ text = <<>>
            /\ data = [sample_size |-> None, groups |-> <<>>, raw_header |-> <<>>]
            /\ df_clean = <<>>
            /\ df_baselines = <<>>
            /\ outputs = {}

\* df_clean = normalize_and_flatten(parsed), when it returns.
NormalizeAndFlatten ==
    /\ pc = "parsed"
    /\ LET res == normalize_and_flatten(parsed)
       IN /\ ~res.raised
          /\ df_clean' = res.df
    /\ pc' = "normalized"
    /\ UNCHANGED <<pages, starts, blocks, text, data, parsed, df_baselines, outputs>>

\* normalize_and_flatten(parsed) raises KeyError: main ends with the exception.
NormalizeRaises ==
    /\ pc = "parsed"
    /\ normalize_and_flatten(parsed).raised
    /\ pc' = "raised"
    /\ UNCHANGED <<pages, starts, blocks, text, data, parsed, df_clean, df_baselines, outputs>>

\* df_baselines = compute_state_baselines(df_clean)
ComputeStateBaselines ==
    /\ pc = "normalized"
    /\ df_baselines' = compute_state_baselines(df_clean)
    /\ pc' = "baselines"
    /\ UNCHANGED <<pages, starts, blocks, text, data, parsed, df_clean, outputs>>

NormNext == NormalizeAndFlatten \/ NormalizeRaises \/ ComputeStateBaselines

SpecNorm == NormInit /\ [][NormNext]_vars

(***************************************************************************)
(* Claims about normalize_and_flatten and compute_state_baselines          *)
(* (specification SpecNorm).                                               *)
(***************************************************************************)
\* The flattened rows with the sample size as it was parsed.
ParsedRows ==
    ConcatAll([i \in 1..Len(parsed) |->
        ConcatAll([g \in 1..Len(parsed[i].pdata.groups) |->
            GroupRows(parsed[i].state, parsed[i].pdata.sample_size, parsed[i].pdata.groups[g])])])

\* The retained rows as they were before the rescale.
RetainedBefore == DropNa(Flatten(parsed))

\* The sum of total_pct over the rows of state st in rows.
SumOfState(rows, st) ==
    RSum([i \in 1..Len(rows) |-> IF rows[i].state = st THEN rows[i].total_pct[1] ELSE RInt(0)])

Identity(r) == <<r.state, r.group_type, r.label, r.source_line>>

\* C4: with S the sum of total_pct over a state's retained rows, the rows of
\* that state are unchanged when S <= 0 or 95 <= S <= 105, and otherwise each
\* is multiplied by 100/S, so that they sum to exactly 100.  The rows of a
\* state depend on that state's S alone.
C4_RescaleByState ==
    pc \in {"normalized", "baselines"} =>
        /\ Len(df_clean) = Len(RetainedBefore)
        /\ \A i \in 1..Len(df_clean) :
              LET st == RetainedBefore[i].state
                  S == SumOfState(RetainedBefore, st)
                  old == RetainedBefore[i].total_pct[1]
                  new == df_clean[i].total_pct[1]
              IN /\ df_clean[i].state = st
                 /\ IF RLeq(S, RInt(0)) \/ (RLeq(RInt(95), S) /\ RLeq(S, RInt(105)))
                    THEN new = old
                    ELSE /\ RMul(new, S) = RMul(old, RInt(100))
                         /\ SumOfState(df_clean, st) = RInt(100)

\* The two rows of the first state sum to 80 and were multiplied by 5/4,
\* next to a second state whose row sums to 100 and was left alone.
C4_Witness ==
    /\ pc = "normalized"
    /\ Len(df_clean) = 3
    /\ SumOfState(RetainedBefore, Ohio) = RInt(80)
    /\ \A i \in 1..2 : /\ df_clean[i].state = Ohio
                       /\ df_clean[i].total_pct[1] = RMul(RetainedBefore[i].total_pct[1], Rat(5, 4))
    /\ df_clean[3].state = Texas
    /\ df_clean[3].total_pct = Some(RInt(100))

\* C5: a state with a row in the normalized table has one baseline row:
\* with dem_votes the sum of grp_share_of_state * dem_rate * sample and
\* total_votes the sum of grp_share_of_state * sample, the share is
\* 100 * dem_votes / total_votes and the margin 2 * share - 100 when
\* total_votes > 0, and both are null otherwise, which is so whenever the
\* state's retained total_pct sum to <= 0.  A state without a row has no
\* baseline row.
C5_BaselinePerState ==
    pc = "baselines" =>
        \A k \in 1..Len(STATES) :
            LET st == STATES[k]
                g == SelectSeq(df_clean, LAMBDA r : r.state = st)
                b == SelectSeq(df_baselines, LAMBDA r : r.state = st)
            IN IF g = <<>> THEN b = <<>>
               ELSE /\ Len(b) = 1
                    /\ LET sample == RInt(g[1].state_sample[1])
                           dem_votes == RSum([i \in 1..Len(g) |->
                               RMul(RMul(g[i].grp_share_of_state, g[i].dem_rate), sample)])
                           total_votes == RSum([i \in 1..Len(g) |->
                               RMul(g[i].grp_share_of_state, sample)])
                       IN /\ RLess(RInt(0), total_votes) =>
                               /\ b[1].baseline_dem_share = Some(RDiv(RMul(RInt(100), dem_votes), total_votes))
                               /\ b[1].baseline_margin =
                                     Some(RAdd(RMul(RInt(2), b[1].baseline_dem_share[1]), RInt(-100)))
                          /\ RLeq(total_votes, RInt(0)) =>
                               /\ b[1].baseline_dem_share = None
                               /\ b[1].baseline_margin = None
                          /\ RLeq(SumOfState(RetainedBefore, st), RInt(0)) => RLeq(total_votes, RInt(0))

\* The first state has the rows (60, 50) and (40, 30): share 42, margin -16;
\* the second state's total_pct sum to 0: a baseline row with nulls.
C5_Witness ==
    /\ pc = "baselines"
    /\ Len(df_baselines) = 2
    /\ df_baselines[1].state = Ohio
    /\ df_baselines[1].baseline_dem_share = Some(RInt(42))
    /\ df_baselines[1].baseline_margin = Some(RInt(-16))
    /\ df_baselines[2].state = Texas
    /\ df_baselines[2].baseline_dem_share = None
    /\ df_baselines[2].baseline_margin = None

\* C6 as stated: a flattened row is retained if and only if the sample size
\* parsed for its state (any parsed integer), its total_pct and its dem_pct
\* are all present, and no retained row has a null in one of the three.
C6_RetainedIffAllThreePresent ==
    pc = "normalized" =>
        LET expected == SelectSeq(ParsedRows, LAMBDA r :
                            r.state_sample # None /\ r.total_pct # None /\ r.dem_pct # None)
        IN /\ [i \in 1..Len(df_clean) |-> Identity(df_clean[i])]
                = [i \in 1..Len(expected) |-> Identity(expected[i])]
           /\ \A i \in 1..Len(df_clean) :
                 /\ df_clean[i].state_sample # None
                 /\ df_clean[i].total_pct # None
                 /\ df_clean[i].dem_pct # None

(***************************************************************************)
(* The pipeline specification: main on a bounded set of documents.         *)
(***************************************************************************)
\* A state's page with a sample size and two four-value group lines.
OhioDataPage ==
    HeaderPage(Ohio) \o
    <<"S","a","m","p","l","e"," ","S","i","z","e",":"," ","5","0","0","\n","1","8","-","2","9"," ","2","0",".","0","%"," ","1","0",".","0","%"," ","9",".","0","%"," ","1",".","0","%","\n","W","h","i","t","e"," ","5","0",".","0","%"," ","2","5",".","0","%"," ","2","3",".","0","%"," ","2",".","0","%","\n">>

\* A state's page without any group line.
TexasEmptyPage ==
    HeaderPage(Texas) \o
    <<"S","a","m","p","l","e"," ","S","i","z","e",":"," ","5","0","0","\n","n","o"," ","d","a","t","a","\n">>

\* A state's page without sample size, with one three-value group line.
KansasThreeValuePage ==
    HeaderPage(Kansas) \o <<"M","e","n"," ","5","0","%"," ","4","5","%"," ","5","%","\n">>

\* A page without header that continues the block before it.
ContinuationPage == <<"W","o","m","e","n"," ","3","0","%"," ","5","5","%"," ","4","0","%"," ","5","%","\n">>

MainPageTexts == {CoverPage, OhioDataPage, TexasEmptyPage, KansasThreeValuePage, ContinuationPage}

\* The documents that open and have at least one page.
MainDocs == UNION {[1..n -> MainPageTexts] : n \in 1..MaxPages}

\* "\n".join(pages[s:e+1]), s and e 0-based.
RECURSIVE JoinPages(_, _, _)
JoinPages(pgs, s, e) ==
    IF s > e THEN <<>>
    ELSE IF s = e THEN pgs[s + 1]
    ELSE pgs[s + 1] \o <<"\n">> \o JoinPages(pgs, s + 1, e)

\* The output files of main.
ParsedJson == "state_data_full_parsed.json"

FlatCsv == "state_groups_full_parsed.csv"

BaselinesCsv == "state_baselines_2024.csv"

DemographicsCsv == "state_demographics_2024.csv"

MainInit == /\ pc = "pages"
            /\ pages \in MainDocs
            /\ starts = <<>>
            /\ blocks = <<>>
            /\ Idle

\* The loop of main over the states: parsed[st] = parse_state_block(block).
ParseBlocks ==
    /\ pc = "blocks"
    /\ parsed' = [i \in 1..Len(blocks) |->
                    [state |-> blocks[i].state,
                     pdata |-> parse_state_block(JoinPages(pages, blocks[i].s, blocks[i].e))]]
    /\ pc' = "json"
    /\ UNCHANGED <<pages, starts, blocks, text, data, df_clean, df_baselines, outputs>>

\* json.dump(parsed, f, indent=2)
SaveParsedJson ==
    /\ pc = "json"
    /\ outputs' = outputs \cup {ParsedJson}
    /\ pc' = "flatten"
    /\ UNCHANGED <<pages, starts, blocks, text, data, parsed, df_clean, df_baselines>>

\* df_clean = normalize_and_flatten(parsed); df_clean.to_csv(csv_flat)
MainNormalize ==
    /\ pc = "flatten"
    /\ LET res == normalize_and_flatten(parsed)
       IN /\ ~res.raised
          /\ df_clean' = res.df
    /\ outputs' = outputs \cup {FlatCsv}
    /\ pc' = "aggregate"
    /\ UNCHANGED <<pages, starts, blocks, text, data, parsed, df_baselines>>

\* normalize_and_flatten(parsed) raises KeyError, which nothing catches.
MainNormalizeRaises ==
    /\ pc = "flatten"
    /\ normalize_and_flatten(parsed).raised
    /\ pc' = "raised"
    /\ UNCHANGED <<pages, starts, blocks, text, data, parsed, df_clean, df_baselines, outputs>>

\* df_baselines = compute_state_baselines(df_clean); df_baselines.to_csv(...)
MainBaselines ==
    /\ pc = "aggregate"
    /\ df_baselines' = compute_state_baselines(df_clean)
    /\ outputs' = outputs \cup {BaselinesCsv}
    /\ pc' = "demographics"
    /\ UNCHANGED <<pages, starts, blocks, text, data, parsed, df_clean>>

\* df_dem.to_csv(...), and the prints that end main.
MainDemographics ==
    /\ pc = "demographics"
    /\ outputs' = outputs \cup {DemographicsCsv}
    /\ pc' = "done"
    /\ UNCHANGED <<pages, starts, blocks, text, data, parsed, df_clean, df_baselines>>

MainNext == \/ FindStateStarts
            \/ DeriveBlocks
            \/ ParseBlocks
            \/ SaveParsedJson
            \/ MainNormalize
            \/ MainNormalizeRaises
            \/ MainBaselines
            \/ MainDemographics

SpecMain == MainInit /\ [][MainNext]_vars

(***************************************************************************)
(* Claims about main (specification SpecMain).                             *)
(***************************************************************************)
\* C3 as stated: for a document with at least one page, main never ends with
\* a raised failure, and when it has ended all four output files are written.
C3_PipelineAlwaysCompletes ==
    /\ pc # "raised"
    /\ pc = "done" => outputs = {ParsedJson, FlatCsv, BaselinesCsv, DemographicsCsv}

====
